---- MODULE Spec2Model ----
(***************************************************************************)
(* build_network of streamlit_app.py: the walk of a JSON-like value that   *)
(* produces the vis-network node list, edge list and truncated flag.       *)
(*                                                                         *)
(* Python strings are modelled as sequences of one-character strings, so   *)
(* that path joining, path.split(".")[-1] and the "root" substitution are  *)
(* computed and path collisions are real.  The recursion of walk is an     *)
(* explicit call stack: the frames below the top one are the iterations    *)
(* of the callers' for loops that are still to run, in order.              *)
(***************************************************************************)
EXTENDS Integers, Sequences, FiniteSets, TLC

(***************************************************************************)
(* Bounds of the model.                                                    *)
(***************************************************************************)
\* largest size of an input value (see ValuesOfSize)
MaxSize == 4
\* largest size of an input value in the specification with fairness
MaxLiveSize == 3
\* largest max_nodes tried; budgets range over -1 .. MaxBudget
MaxBudget == 4

(***************************************************************************)
(* Strings.                                                                *)
(***************************************************************************)
Str0 == <<>>
StrRoot == <<"r", "o", "o", "t">>
StrObjSuffix == <<" ", "{", "}">>
StrInt == <<"i", "n", "t">>

Digits == <<"0", "1", "2", "3", "4", "5", "6", "7", "8", "9">>

RECURSIVE IntToStr(_)
\* str(i) of a non-negative int, as the f-strings and json.dumps render it
IntToStr(i) ==
    IF i < 10 THEN <<Digits[i + 1]>>
    ELSE IntToStr(i \div 10) \o <<Digits[(i % 10) + 1]>>

RECURSIVE LastDot(_, _)
\* index of the last "." among the first n characters of s, 0 when there is none
LastDot(s, n) ==
    IF n = 0 THEN 0
    ELSE IF s[n] = "." THEN n
    ELSE LastDot(s, n - 1)

\* path.split(".")[-1]
SplitLast(s) == SubSeq(s, LastDot(s, Len(s)) + 1, Len(s))

\* (path.split(".")[-1] if path else "root")
LabelHead(path) == IF path # Str0 THEN SplitLast(path) ELSE StrRoot

\* path or "root"
PathOrRoot(path) == IF path # Str0 THEN path ELSE StrRoot

\* f"{path + '.' if path else ''}{k}"
DictChildPath(path, k) == (IF path # Str0 THEN path \o <<".">> ELSE Str0) \o k

\* f"{path}[{i}]" if path else f"[{i}]"   (i is the 0-based index)
ListChildPath(path, i) ==
    IF path # Str0 THEN path \o <<"[">> \o IntToStr(i) \o <<"]">>
    ELSE <<"[">> \o IntToStr(i) \o <<"]">>

(***************************************************************************)
(* JSON values.  Every value is a record [kind, val, items]; items is the  *)
(* ordered sequence of entries [k, v]: the (key, value) pairs of a dict in *)
(* insertion order, the elements of a list (k unused).                     *)
(***************************************************************************)
Prim(n) == [kind |-> "int", val |-> n, items |-> <<>>]
Dict(es) == [kind |-> "dict", val |-> 0, items |-> es]
List(es) == [kind |-> "list", val |-> 0, items |-> es]

\* the keys tried: "", "root", "a", "a.a", "a[0]"
Keys ==
    { Str0, StrRoot, <<"a">>, <<"a", ".", "a">>, <<"a", "[", "0", "]">> }

Prims == { Prim(1) }

RECURSIVE ValuesOfSize(_), DictEntries(_, _), ListEntries(_)
\* the entry sequences of a dict whose values have size n in all, keys distinct
DictEntries(n, keys) ==
    IF n = 0 THEN { <<>> }
    ELSE UNION { UNION { UNION { { <<[k |-> k, v |-> v]>> \o rest :
                                     rest \in DictEntries(n - s, keys \ {k}) } :
                                 v \in ValuesOfSize(s) } :
                         k \in keys } :
                 s \in 1 .. n }
\* the entry sequences of a list whose elements have size n in all
ListEntries(n) ==
    IF n = 0 THEN { <<>> }
    ELSE UNION { UNION { { <<[k |-> Str0, v |-> v]>> \o rest :
                             rest \in ListEntries(n - s) } :
                         v \in ValuesOfSize(s) } :
                 s \in 1 .. n }
\* the values of size n: a primitive has size 1, an empty container size 2, any
\* other container 1 more than its entries together
ValuesOfSize(n) ==
    (IF n = 1 THEN Prims ELSE {})
      \cup (IF n = 2 THEN { Dict(<<>>), List(<<>>) } ELSE {})
      \cup { Dict(es) : es \in DictEntries(n - 1, Keys) \ { <<>> } }
      \cup { List(es) : es \in ListEntries(n - 1) \ { <<>> } }

Inputs == UNION { ValuesOfSize(n) : n \in 1 .. MaxSize }
LiveInputs == UNION { ValuesOfSize(n) : n \in 1 .. MaxLiveSize }
Budgets == (0 - 1) .. MaxBudget
ShowValuesChoices == BOOLEAN

(***************************************************************************)
(* State: the arguments and locals of build_network, the call stack of     *)
(* walk, and the triples returned so far.                                  *)
(***************************************************************************)
VARIABLES data, show_values, max_nodes,
          nodes, edges, truncated, path_to_id, next_id,
          stack, pc, returned

vars == <<data, show_values, max_nodes, nodes, edges, truncated, path_to_id,
          next_id, stack, pc, returned>>

\* the value add_node returns for a declined node; node ids start at 1
None == 0

\* the locals of build_network as one record, for the operators below
Locals ==
    [nodes |-> nodes, edges |-> edges, truncated |-> truncated,
     path_to_id |-> path_to_id, next_id |-> next_id, stack |-> stack]

\* lines 47-52 and the call walk(data, path="", parent_nid=None) of line 101
InitLocals(d) ==
    [nodes |-> <<>>, edges |-> <<>>, truncated |-> FALSE,
     path_to_id |-> <<>>, next_id |-> 1,
     stack |-> <<[obj |-> d, path |-> Str0, parent_nid |-> None]>>]

(***************************************************************************)
(* add_node                                                                *)
(***************************************************************************)
\* the test left out: every call creates a node
SeenNever(m, path) == FALSE

\* if path in path_to_id
Seen(m, path) == path \in DOMAIN m

\* > for >=
BudgetExceeded(n, max) == n > max

\* == for >=
BudgetEqual(n, max) == n = max

\* if len(nodes) >= max_nodes
BudgetReached(n, max) == n >= max

\* return None without setting truncated
DeclineSilently(s) == [st |-> s, nid |-> None]

\* truncated = True; return None
Decline(s) == [st |-> [s EXCEPT !.truncated = TRUE], nid |-> None]

\* path_to_id[path] = nid
Remember(m, path, nid) ==
    [p \in (DOMAIN m) \cup {path} |-> IF p = path THEN nid ELSE m[p]]

\* add_node(path, label, group): the locals after the call and the id returned
add_node(s, max, path, label, group) ==
    IF Seen(s.path_to_id, path)
      THEN [st |-> s, nid |-> s.path_to_id[path]]
    ELSE IF BudgetReached(Len(s.nodes), max)
      THEN Decline(s)
    ELSE [st |-> [s EXCEPT !.next_id = s.next_id + 1,
                           !.path_to_id = Remember(s.path_to_id, path, s.next_id),
                           !.nodes = Append(s.nodes,
                                            [id |-> s.next_id, label |-> label,
                                             group |-> group])],
          nid |-> s.next_id]

(***************************************************************************)
(* walk                                                                    *)
(***************************************************************************)
\* _value_preview of a primitive: json.dumps(v)
ValuePreview(obj) == IntToStr(obj.val)

\* type(obj).__name__
TypeName(obj) == StrInt

\* the label, the group and the path handed to add_node, by branch of walk
DictLabel(obj, path) == LabelHead(path) \o StrObjSuffix
ListLabel(obj, path) ==
    LabelHead(path) \o <<" ", "[">> \o IntToStr(Len(obj.items)) \o <<"]">>
ValueLabel(obj, show) == IF show THEN ValuePreview(obj) ELSE TypeName(obj)

\* walk(obj, child_path, nid) for walk(v, child_path, nid)
DictCallsSelf(obj, path) ==
    [i \in 1 .. Len(obj.items) |->
        [obj |-> obj, path |-> DictChildPath(path, obj.items[i].k)]]

\* a depth limit: the fields of the root only
DictCallsTop(obj, path) ==
    IF path # Str0 THEN <<>>
    ELSE [i \in 1 .. Len(obj.items) |->
            [obj |-> obj.items[i].v, path |-> DictChildPath(path, obj.items[i].k)]]

\* for k, v in obj.items(): the (value, child_path) of each call of walk, in order
DictCalls(obj, path) ==
    [i \in 1 .. Len(obj.items) |->
        [obj |-> obj.items[i].v, path |-> DictChildPath(path, obj.items[i].k)]]

\* for i, v in enumerate(obj): the (value, child_path) of each call of walk, in order
ListCalls(obj, path) ==
    [i \in 1 .. Len(obj.items) |->
        [obj |-> obj.items[i].v, path |-> ListChildPath(path, i - 1)]]

\* walk(v, child_path, nid): the frames of the calls, each with the parent's id
Frames(calls, nid) ==
    [i \in 1 .. Len(calls) |->
        [obj |-> calls[i].obj, path |-> calls[i].path, parent_nid |-> nid]]

\* the test left out: the edge is appended whatever add_node returned
DeclinedNever(nid) == FALSE

\* if nid is None: return
Declined(nid) == nid = None

\* if parent_nid is not None: edges.append({"from": parent_nid, "to": nid})
AddEdge(es, parent_nid, nid) ==
    IF parent_nid # None THEN Append(es, [from |-> parent_nid, to |-> nid])
    ELSE es

\* a queue for the stack: the calls of a for loop run after all pending ones
PushCallsLast(frames, rest) == rest \o frames

\* the calls of a for loop run before the callers' remaining iterations
PushCalls(frames, rest) == frames \o rest

\* one call of walk after its truncated test: add_node, the edge, the loop's calls
WalkBody(s, max, key, label, group, calls) ==
    LET f == Head(s.stack)
        r == add_node(s, max, key, label, group)
    IN  IF Declined(r.nid)
          THEN [r.st EXCEPT !.stack = Tail(s.stack)]
        ELSE [r.st EXCEPT !.edges = AddEdge(r.st.edges, f.parent_nid, r.nid),
                          !.stack = PushCalls(Frames(calls, r.nid), Tail(s.stack))]

\* if truncated: return
WalkSkip(s) == [s EXCEPT !.stack = Tail(s.stack)]

\* the isinstance(obj, dict) branch
WalkDictBody(s, max) ==
    LET f == Head(s.stack)
    IN  WalkBody(s, max, PathOrRoot(f.path), DictLabel(f.obj, f.path), "object",
                 DictCalls(f.obj, f.path))

\* the isinstance(obj, list) branch
WalkListBody(s, max) ==
    LET f == Head(s.stack)
    IN  WalkBody(s, max, PathOrRoot(f.path), ListLabel(f.obj, f.path), "array",
                 ListCalls(f.obj, f.path))

\* the else branch: a primitive
WalkValueBody(s, max, show) ==
    LET f == Head(s.stack)
    IN  WalkBody(s, max, f.path, ValueLabel(f.obj, show), "value", <<>>)

\* one call of walk, from its entry to its first nested call or its return
WalkCall(s, max, show) ==
    LET f == Head(s.stack)
    IN  IF s.truncated THEN WalkSkip(s)
        ELSE IF f.obj.kind = "dict" THEN WalkDictBody(s, max)
        ELSE IF f.obj.kind = "list" THEN WalkListBody(s, max)
        ELSE WalkValueBody(s, max, show)

RECURSIVE RunWalk(_, _, _)
\* walk(data, path="", parent_nid=None) run to its return
RunWalk(s, max, show) ==
    IF s.stack = <<>> THEN s ELSE RunWalk(WalkCall(s, max, show), max, show)

\* return nodes, edges, truncated   (with the max_nodes of the call)
Result(s, max) ==
    [max_nodes |-> max, nodes |-> s.nodes, edges |-> s.edges,
     truncated |-> s.truncated]

\* build_network(data, show_values=show, max_nodes=max) as a function
build_network(d, show, max) == Result(RunWalk(InitLocals(d), max, show), max)

(***************************************************************************)
(* The state machine: one action per call of walk.                         *)
(***************************************************************************)
SetLocals(s) ==
    /\ nodes' = s.nodes
    /\ edges' = s.edges
    /\ truncated' = s.truncated
    /\ path_to_id' = s.path_to_id
    /\ next_id' = s.next_id
    /\ stack' = s.stack

\* the state on entry to walk(data, path="", parent_nid=None), for the inputs given
InitWith(inputs) ==
    /\ data \in inputs
    /\ show_values \in ShowValuesChoices
    /\ max_nodes \in Budgets
    /\ nodes = InitLocals(data).nodes
    /\ edges = InitLocals(data).edges
    /\ truncated = InitLocals(data).truncated
    /\ path_to_id = InitLocals(data).path_to_id
    /\ next_id = InitLocals(data).next_id
    /\ stack = InitLocals(data).stack
    /\ pc = "walk"
    /\ returned = <<>>

Init == InitWith(Inputs)

\* the same, for the inputs of the specification with fairness
InitLive == InitWith(LiveInputs)

\* a call of walk that finds truncated set and returns at once
WalkTruncated ==
    /\ pc = "walk" /\ stack # <<>> /\ truncated
    /\ SetLocals(WalkSkip(Locals))
    /\ UNCHANGED <<data, show_values, max_nodes, pc, returned>>

WalkDict ==
    /\ pc = "walk" /\ stack # <<>> /\ ~truncated
    /\ Head(stack).obj.kind = "dict"
    /\ SetLocals(WalkDictBody(Locals, max_nodes))
    /\ UNCHANGED <<data, show_values, max_nodes, pc, returned>>

WalkList ==
    /\ pc = "walk" /\ stack # <<>> /\ ~truncated
    /\ Head(stack).obj.kind = "list"
    /\ SetLocals(WalkListBody(Locals, max_nodes))
    /\ UNCHANGED <<data, show_values, max_nodes, pc, returned>>

WalkValue ==
    /\ pc = "walk" /\ stack # <<>> /\ ~truncated
    /\ Head(stack).obj.kind \notin {"dict", "list"}
    /\ SetLocals(WalkValueBody(Locals, max_nodes, show_values))
    /\ UNCHANGED <<data, show_values, max_nodes, pc, returned>>

\* the outermost walk has returned: return nodes, edges, truncated
Return ==
    /\ pc = "walk" /\ stack = <<>>
    /\ pc' = "done"
    /\ returned' = Append(returned, Result(Locals, max_nodes))
    /\ UNCHANGED <<data, show_values, max_nodes, nodes, edges, truncated,
                   path_to_id, next_id, stack>>

Next == WalkTruncated \/ WalkDict \/ WalkList \/ WalkValue \/ Return

Spec == Init /\ [][Next]_vars

\* the interpreter runs a call that has started to its end
FairSpec == InitLive /\ [][Next]_vars /\ WF_vars(Next)

(***************************************************************************)
(* Whole calls: build_network as a function, called on the same data with  *)
(* one budget and then with a larger one.  The locals of a call are its    *)
(* own; the caller sees the triples returned.                              *)
(***************************************************************************)
\* nodes, edges, truncated = build_network(data, show_values=..., max_nodes=...)
Build ==
    /\ pc = "walk" /\ returned = <<>>
    /\ pc' = "done"
    /\ returned' = Append(returned, build_network(data, show_values, max_nodes))
    /\ UNCHANGED <<data, show_values, max_nodes, nodes, edges, truncated,
                   path_to_id, next_id, stack>>

\* nodes, edges, truncated = build_network(...) again, with max_nodes = k
Rebuild(k) ==
    /\ pc = "done" /\ Len(returned) = 1 /\ k > max_nodes
    /\ max_nodes' = k
    /\ returned' = Append(returned, build_network(data, show_values, k))
    /\ UNCHANGED <<data, show_values, nodes, edges, truncated, path_to_id,
                   next_id, stack, pc>>

NextCalls == Build \/ \E k \in Budgets : Rebuild(k)

SpecCalls == Init /\ [][NextCalls]_vars

(***************************************************************************)
(* The locations of a value, listed without the walk: the root, every      *)
(* object field and every array element, parents before children and       *)
(* entries in their order.  parent is the index of the parent's location   *)
(* in the list (0 for the root), key the path string the location is       *)
(* registered under.                                                       *)
(***************************************************************************)
IsContainer(obj) == obj.kind \in {"dict", "list"}

EntryPath(obj, path, i) ==
    IF obj.kind = "dict" THEN DictChildPath(path, obj.items[i].k)
    ELSE ListChildPath(path, i - 1)

LocOf(obj, path, depth, parent) ==
    [obj |-> obj, path |-> path, depth |-> depth, parent |-> parent,
     key |-> IF IsContainer(obj) THEN PathOrRoot(path) ELSE path,
     group |-> IF obj.kind = "dict" THEN "object"
               ELSE IF obj.kind = "list" THEN "array" ELSE "value"]

RECURSIVE SubLocs(_, _, _, _, _), EntryLocs(_, _, _, _, _, _)
\* the locations of obj and below; obj's own location has index self
SubLocs(obj, path, depth, parent, self) ==
    EntryLocs(obj, path, depth, self, 1, <<LocOf(obj, path, depth, parent)>>)
\* acc extended by the locations of the entries i.. of obj
EntryLocs(obj, path, depth, self, i, acc) ==
    IF i > Len(obj.items) THEN acc
    ELSE EntryLocs(obj, path, depth, self, i + 1,
                   acc \o SubLocs(obj.items[i].v, EntryPath(obj, path, i),
                                  depth + 1, self, self + Len(acc)))

Locs(d) == SubLocs(d, Str0, 0, 0, 1)

\* the label a location gets when it is the one that creates the node
LocLabel(loc, show) ==
    IF loc.obj.kind = "dict" THEN DictLabel(loc.obj, loc.path)
    ELSE IF loc.obj.kind = "list" THEN ListLabel(loc.obj, loc.path)
    ELSE ValueLabel(loc.obj, show)

RECURSIVE Dedup(_)
\* a sequence without the later repetitions of its elements
Dedup(q) ==
    IF q = <<>> THEN <<>>
    ELSE LET front == Dedup(SubSeq(q, 1, Len(q) - 1))
             x == q[Len(q)]
         IN  IF \E i \in 1 .. Len(front) : front[i] = x THEN front
             ELSE Append(front, x)

KeysOf(ls) == [i \in 1 .. Len(ls) |-> ls[i].key]

\* the distinct keys of a value, in depth-first (pre-order) order
PreOrderKeys(d) == Dedup(KeysOf(Locs(d)))

RECURSIVE ByDepth(_, _)
\* the locations of depth dep and more, level by level, each level in list order
ByDepth(ls, dep) ==
    IF \A i \in 1 .. Len(ls) : ls[i].depth < dep THEN <<>>
    ELSE SelectSeq(ls, LAMBDA l : l.depth = dep) \o ByDepth(ls, dep + 1)

\* the distinct keys of a value, in breadth-first order
BreadthFirstKeys(d) == Dedup(KeysOf(ByDepth(Locs(d), 0)))

\* no two locations of the input are registered under the same path string
DistinctPaths == Len(PreOrderKeys(data)) = Len(Locs(data))

NodeIds == { nodes[i].id : i \in 1 .. Len(nodes) }

\* the location has a node for its path in the node list
HasNode(key) == key \in DOMAIN path_to_id /\ path_to_id[key] \in NodeIds

\* the path a node was created for, <<"?">> when path_to_id has none for its id
PathOfId(id) ==
    IF \E k \in DOMAIN path_to_id : path_to_id[k] = id
      THEN CHOOSE k \in DOMAIN path_to_id : path_to_id[k] = id
    ELSE <<"?">>

EmittedKeys == [i \in 1 .. Len(nodes) |-> PathOfId(nodes[i].id)]

Prefix(q, n) == SubSeq(q, 1, IF n < Len(q) THEN n ELSE Len(q))

\* the key of the call of walk on top of the stack
TopKey ==
    IF IsContainer(Head(stack).obj) THEN PathOrRoot(Head(stack).path)
    ELSE Head(stack).path

\* the step is a call of walk that reaches add_node
AddNodeStep == pc = "walk" /\ stack # <<>> /\ ~truncated

\* the step is a call of add_node for a new path with the budget used up
DeclineStep ==
    AddNodeStep /\ TopKey \notin DOMAIN path_to_id /\ Len(nodes) >= max_nodes

\* the step is a call of add_node for a path seen before
SeenStep == AddNodeStep /\ TopKey \in DOMAIN path_to_id

(***************************************************************************)
(* C1  Node budget.  With max_nodes >= 0 the node list never holds more    *)
(* than max_nodes nodes, at any step of the walk and on return; a call of  *)
(* add_node that would exceed the budget appends nothing and sets          *)
(* truncated in that same step.                                            *)
(***************************************************************************)
C1_NodeBudget ==
    /\ [](max_nodes >= 0 => Len(nodes) <= max_nodes)
    /\ [][DeclineStep => nodes' = nodes /\ edges' = edges /\ truncated']_vars

\* a node was declined with the budget exactly used up
C1_Witness ==
    pc = "done" /\ truncated /\ max_nodes >= 2 /\ Len(nodes) = max_nodes

(***************************************************************************)
(* C2  The truncated flag is exact.  On return truncated is true exactly   *)
(* when some location of the input has no node for its path; when the      *)
(* input has at most max_nodes distinct paths every location has a node    *)
(* and truncated is false; and once truncated is true no node and no edge  *)
(* is appended.                                                            *)
(***************************************************************************)
C2_TruncatedExact ==
    /\ [](pc = "done" =>
            LET ls == Locs(data)
                missing == \E i \in 1 .. Len(ls) : ~HasNode(ls[i].key)
            IN  /\ truncated <=> missing
                /\ Len(PreOrderKeys(data)) <= max_nodes => ~truncated /\ ~missing)
    /\ [][truncated => nodes' = nodes /\ edges' = edges /\ truncated']_vars

\* a partial graph was returned: some locations have a node, a later one has none
C2_Witness ==
    /\ pc = "done" /\ truncated /\ Len(nodes) >= 2
    /\ \E i \in 1 .. Len(Locs(data)) : ~HasNode(Locs(data)[i].key)

(***************************************************************************)
(* C3  Edge endpoint closure.  In every state, truncated or not, both the  *)
(* from id and the to id of every edge are ids of nodes in the node list.  *)
(***************************************************************************)
C3_EdgeClosure ==
    \A i \in 1 .. Len(edges) : edges[i].from \in NodeIds /\ edges[i].to \in NodeIds

\* edges were appended and then a node was declined
C3_Witness == truncated /\ Len(edges) >= 2

(***************************************************************************)
(* C4  Deduplication by path.  There is one node per distinct path: node   *)
(* ids are pairwise distinct, path_to_id maps the paths one-to-one onto    *)
(* them, a call of add_node for a path seen before appends no node and     *)
(* returns the id recorded for it, and each node keeps the label and the   *)
(* group of the first location that has its path.                          *)
(***************************************************************************)
C4_DedupByPath ==
    /\ [](/\ \A i, j \in 1 .. Len(nodes) : nodes[i].id = nodes[j].id => i = j
          /\ \A k1, k2 \in DOMAIN path_to_id :
                path_to_id[k1] = path_to_id[k2] => k1 = k2
          /\ { path_to_id[k] : k \in DOMAIN path_to_id } = NodeIds
          /\ LET ls == Locs(data)
             IN  \A n \in 1 .. Len(nodes) :
                   \E i \in 1 .. Len(ls) :
                     /\ ls[i].key = PathOfId(nodes[n].id)
                     /\ \A j \in 1 .. (i - 1) : ls[j].key # ls[i].key
                     /\ nodes[n].label = LocLabel(ls[i], show_values)
                     /\ nodes[n].group = ls[i].group)
    /\ [][SeenStep =>
            /\ nodes' = nodes /\ path_to_id' = path_to_id
            /\ Head(stack).parent_nid # None =>
                  edges' = Append(edges, [from |-> Head(stack).parent_nid,
                                          to |-> path_to_id[TopKey]])]_vars

\* a path was met twice: fewer nodes than locations in a complete graph
C4_Witness ==
    pc = "done" /\ ~truncated /\ Len(nodes) >= 2 /\ Len(nodes) < Len(Locs(data))

(***************************************************************************)
(* C5  Truncation monotonicity.  For one input and two budgets k1 <= k2,   *)
(* the call with k1 returns no more nodes than the call with k2, and if    *)
(* the call with k2 returns truncated = true so does the call with k1.     *)
(***************************************************************************)
C5_Monotone ==
    \A i, j \in 1 .. Len(returned) :
        returned[i].max_nodes <= returned[j].max_nodes =>
            /\ Len(returned[i].nodes) <= Len(returned[j].nodes)
            /\ returned[j].truncated => returned[i].truncated

\* two calls on one input, both truncated, the larger budget giving more nodes
C5_Witness ==
    /\ Len(returned) = 2
    /\ returned[1].max_nodes < returned[2].max_nodes
    /\ returned[1].truncated /\ returned[2].truncated
    /\ Len(returned[1].nodes) < Len(returned[2].nodes)

(***************************************************************************)
(* C6  Emission order.                                                     *)
(***************************************************************************)
\* the depth of the first location that has the path of the n-th node
NodeDepth(n) ==
    LET ls == Locs(data)
        hit == { i \in 1 .. Len(ls) : ls[i].key = EmittedKeys[n] }
    IN  IF hit = {} THEN 0
        ELSE ls[CHOOSE i \in hit : \A j \in hit : i <= j].depth

Budget == IF max_nodes < 0 THEN 0 ELSE max_nodes

\* C6 as claimed: nodes are emitted breadth-first, every node of depth d
\* before any node of depth d + 1, so that the nodes kept on return are the
\* first max_nodes locations in breadth-first order.  Stated for the inputs
\* whose locations have pairwise distinct paths.
C6_BreadthFirst ==
    pc = "done" /\ DistinctPaths =>
        /\ \A m, n \in 1 .. Len(nodes) : m < n => NodeDepth(m) <= NodeDepth(n)
        /\ EmittedKeys = Prefix(BreadthFirstKeys(data), Budget)

\* C6 amended: nodes are emitted depth-first, a parent before its children and
\* a whole subtree before the next sibling, children in object/array order:
\* at every step the node list is a prefix of the distinct paths in pre-order,
\* and on return it holds the first max_nodes of them.
C6_DepthFirst ==
    /\ EmittedKeys = Prefix(PreOrderKeys(data), Len(nodes))
    /\ pc = "done" => Len(nodes) = Len(Prefix(PreOrderKeys(data), Budget))

\* the budget ran out on an input whose two orders differ within the budget
C6_Witness ==
    /\ pc = "done" /\ truncated /\ Len(nodes) >= 3
    /\ EmittedKeys # Prefix(BreadthFirstKeys(data), Len(nodes))

(***************************************************************************)
(* C7  Depth cutoff.                                                       *)
(***************************************************************************)
\* C7 as claimed: a maxDepth limit is honoured.  build_network takes data,
\* show_values and max_nodes only, so its result is the same for every
\* maxDepth the caller has in mind: no node is deeper than any of them, and
\* for maxDepth = 0 only the root is emitted, with no edges.  Stated for the
\* inputs whose locations have pairwise distinct paths.
C7_DepthCutoff ==
    \A maxDepth \in 0 .. MaxSize :
      DistinctPaths =>
        /\ \A n \in 1 .. Len(nodes) : NodeDepth(n) <= maxDepth
        /\ maxDepth = 0 => Len(nodes) <= 1 /\ edges = <<>>

\* C7 amended: there is no depth limit; max_nodes is the only cutoff.  When
\* truncated is false on return, every location at every depth has a node
\* and an edge from its parent's node to its own.
C7_NoDepthLimit ==
    pc = "done" /\ ~truncated =>
        LET ls == Locs(data)
        IN  \A j \in 2 .. Len(ls) :
              /\ HasNode(ls[j].key)
              /\ HasNode(ls[ls[j].parent].key)
              /\ \E e \in 1 .. Len(edges) :
                    /\ edges[e].from = path_to_id[ls[ls[j].parent].key]
                    /\ edges[e].to = path_to_id[ls[j].key]

\* a complete graph of an input with a location two levels below the root
C7_Witness ==
    /\ pc = "done" /\ ~truncated /\ Len(edges) >= 2
    /\ \E j \in 1 .. Len(Locs(data)) : Locs(data)[j].depth >= 2

(***************************************************************************)
(* C8  Completeness under generous limits.  When nothing is declined the   *)
(* node list holds at least one node per location: 1 for the root plus     *)
(* the number of object fields plus the number of array elements, also     *)
(* for inputs with an empty key, a key "root" or keys holding "." or "[".  *)
(***************************************************************************)
C8_Completeness ==
    pc = "done" /\ ~truncated => Len(nodes) >= Len(Locs(data))

(***************************************************************************)
(* C9  Totality and termination.  Every call of build_network returns its  *)
(* triple; until then a step of walk is always possible; each call of walk *)
(* made by a for loop is on an entry of the caller's value, a strictly     *)
(* smaller value, and the calls still to be made when the budget runs out  *)
(* are made and return one by one.                                         *)
(***************************************************************************)
RECURSIVE ValueSize(_), EntriesSize(_, _)
ValueSize(obj) == 1 + EntriesSize(obj, Len(obj.items))
EntriesSize(obj, n) ==
    IF n = 0 THEN 0 ELSE ValueSize(obj.items[n].v) + EntriesSize(obj, n - 1)

\* the frames a step of walk pushes: the entries of the value of the frame it
\* pops, in order, and nothing once truncated is set
CallsDescend ==
    LET n == Len(stack') - Len(stack) + 1
        f == Head(stack)
    IN  /\ n >= 0
        /\ SubSeq(stack', n + 1, Len(stack')) = Tail(stack)
        /\ n > 0 => n = Len(f.obj.items) /\ ~truncated
        /\ \A i \in 1 .. n :
              /\ stack'[i].obj = f.obj.items[i].v
              /\ ValueSize(stack'[i].obj) < ValueSize(f.obj)

C10_TreeShape ==
    pc = "done" =>
        /\ \A e \in 1 .. Len(edges) : edges[e].from # edges[e].to
        /\ \A n \in 1 .. Len(nodes) :
              Cardinality({ e \in 1 .. Len(edges) : edges[e].to = nodes[n].id })
                = IF n = 1 THEN 0 ELSE 1
        /\ Len(nodes) >= 1 => Len(edges) = Len(nodes) - 1

====
